---- MODULE Spec2Model ----
(***************************************************************************)
(* kernlog: a `log::Log` implementation that writes records to /dev/kmsg.  *)
(*                                                                         *)
(* State machine of src/lib.rs: the KernelLog sink (a Mutex<File> and an   *)
(* immutable LevelFilter), its enabled/log/flush methods stepped at the    *)
(* granularity of lock, write, flush, unlock, and the global registration  *)
(* done by init/init_with_level through the `log` crate.                   *)
(*                                                                         *)
(* Spec     one sink built by a constructor, threads call log and flush.   *)
(* SpecReg  no logger installed at first; threads call init and            *)
(*          init_with_level and log through the macros of the `log` crate, *)
(*          and build sinks of their own with new and with_level.          *)
(* SpecFair     one sink, threads call log and flush, fair scheduling.     *)
(* SpecEnabled  one sink, threads call enabled.                            *)
(* SpecSink     one sink, threads call enabled, log and flush.             *)
(***************************************************************************)
EXTENDS Integers, Sequences, FiniteSets, TLC

VARIABLES
    sink,           \* the KernelLog instance the threads log to (Spec), or the
                    \* logger installed in the `log` crate (SpecReg)
    kmsg_owner,     \* the thread holding the guard of sink.kmsg, or None
    kmsg_poisoned,  \* the poison flag of sink.kmsg
    MAX_LEVEL,      \* the `log` crate's global maximum level filter
    pc,             \* per thread: position in the call it is executing
    call,           \* per thread: the method it is executing
    eret,           \* per thread: the level and the result of its last
                    \* call of enabled
    rec,            \* per thread: the Record argument of its log call
    lvl,            \* per thread: the local `level: u8` of log
    buf,            \* per thread: the local Vec<u8> `buf` of log
    ilevel,         \* per thread: the `level` argument of init_with_level, or
                    \* the `filter` argument of with_level
    logger,         \* per thread: the local `logger` of init_with_level, or
                    \* the KernelLog a constructor returned to the thread
    iret,           \* per thread: the function it called last among init,
                    \* init_with_level, new, with_level, and what it returned
    ops,            \* the operations received by the File handle, in order
    stream,         \* the bytes the device accepted, in order
    last_flush,     \* what the handle returned to the most recent flush
    nlogs,          \* per level: number of calls of sink.log with a record
                    \* of that level
    ncalls          \* number of calls started so far

vars == << sink, kmsg_owner, kmsg_poisoned, MAX_LEVEL, pc, call, eret, rec,
           lvl, buf, ilevel, logger, iret, ops, stream, last_flush, nlogs,
           ncalls >>

\* the variables of the device and of the call counters
devvars == << ops, stream, last_flush >>
\* the variables of init and init_with_level
initvars == << ilevel, logger, iret >>
\* the locals of log
logvars == << rec, lvl, buf >>
\* the mutex of sink.kmsg
lockvars == << kmsg_owner, kmsg_poisoned >>

----------------------------------------------------------------------------
(* Bounds *)

NThreads == 2
MaxCalls == 2
MaxOps == 4

Threads == 1..NThreads
None == 0

----------------------------------------------------------------------------
(* log::Level and log::LevelFilter, with the discriminants of the log crate *)

Off == 0
Error == 1
Warn == 2
Info == 3
Debug == 4
Trace == 5

Level == {Error, Warn, Info, Debug, Trace}
LevelFilter == {Off} \cup Level

\* Level::to_level_filter
to_level_filter(level) == level

----------------------------------------------------------------------------
(* Strings are sequences of one-character strings *)

NL == "\n"

myapp == <<"m","y","a","p","p">>
disk_nearly_full ==
    <<"d","i","s","k"," ","n","e","a","r","l","y"," ","f","u","l","l">>

Record(level, target, args) == [level |-> level, target |-> target, args |-> args]

\* the records the call sites hand to log: one of every level, among them
\* an empty target, an empty message and a message of two lines
Records ==
    { Record(Error, <<"a">>, <<"x">>),
      Record(Warn, myapp, disk_nearly_full),
      Record(Info, <<"b">>, <<"y">>),
      Record(Debug, << >>, <<"x", NL, "y">>),
      Record(Trace, <<"a">>, << >>) }

NoRecord == [level |-> Off, target |-> << >>, args |-> << >>]

----------------------------------------------------------------------------
(* KernelLog *)

NopLogger == [open |-> FALSE, maxlevel |-> Off]

with_level_info(filter) == [open |-> TRUE, maxlevel |-> Info]

\* KernelLog::with_level when the open of /dev/kmsg succeeds
with_level(filter) == [open |-> TRUE, maxlevel |-> filter]

\* KernelLog::new
new == with_level(Info)

OpenIgnored(opened) == "continue"

\* OpenOptions::new().write(true).open("/dev/kmsg").unwrap()
OpenUnwrap(opened) == IF opened THEN "continue" ELSE "panic"

enabled_lt(s, level) == level < s.maxlevel

enabled_always(s, level) == TRUE

enabled_ge(s, level) == level >= s.maxlevel

\* <KernelLog as Log>::enabled
enabled(s, level) == level <= s.maxlevel

priority_off_by_one(level) ==
    CASE level = Error -> 3
      [] level = Warn  -> 4
      [] level = Info  -> 5
      [] level = Debug -> 6
      [] level = Trace -> 6

\* the `match record.level()` of log
priority(level) ==
    CASE level = Error -> 3
      [] level = Warn  -> 4
      [] level = Info  -> 5
      [] level = Debug -> 6
      [] level = Trace -> 7

DigitChars == <<"0","1","2","3","4","5","6","7","8","9">>

\* Display of a u8: decimal, no leading zeros
RECURSIVE Decimal(_)
Decimal(n) ==
    IF n < 10 THEN << DigitChars[n + 1] >>
    ELSE Decimal(n \div 10) \o << DigitChars[(n % 10) + 1] >>

format_no_newline(r) ==
    <<"<">> \o Decimal(priority(r.level)) \o <<">">> \o r.target
        \o <<":", " ">> \o r.args

format_no_space(r) ==
    <<"<">> \o Decimal(priority(r.level)) \o <<">">> \o r.target
        \o <<":">> \o r.args \o <<NL>>

\* writeln!(buf, "<{}>{}: {}", level, record.target(), record.args())
format(r) ==
    <<"<">> \o Decimal(priority(r.level)) \o <<">">> \o r.target
        \o <<":", " ">> \o r.args \o <<NL>>

----------------------------------------------------------------------------
(* The File handle.  A write accepts all of the buffer, a part of it, or   *)
(* fails; a flush succeeds or fails.  Err is -1, Ok(n) is n.               *)

Err == -1

WriteResults(b) == { Err, Len(b) \div 2, Len(b) }
FlushResults == { Err, 0 }

Accepted(b, res) == IF res = Err THEN << >> ELSE SubSeq(b, 1, res)

WriteOp(t, r, b, res) ==
    [thread |-> t, op |-> "write", rec |-> r, buf |-> b, res |-> res]
FlushOp(t) ==
    [thread |-> t, op |-> "flush", rec |-> NoRecord, buf |-> << >>, res |-> 0]

unwrap(res) == IF res = Err THEN "panic" ELSE "continue"

\* `let _ = ...`: the io::Result of write and of flush is discarded
discard(res) == "continue"

LockFree_always == TRUE

\* Mutex::lock blocks while another thread holds the guard
LockFree == kmsg_owner = None

GuardDroppedAfterWrite(t) == None

\* the guard `kmsg` lives to the end of the `if let` block: the thread still
\* owns the mutex after the write
GuardAfterWrite(t) == t

GuardLeaked(t) == t

\* the guard is dropped at the closing brace of the `if let` block
GuardAfterScope(t) == None

AfterLock_write(c) == "write"

\* what the method does once it holds the guard: log writes and then
\* flushes, flush only flushes
AfterLock(c) == IF c = "log" THEN "write" ELSE "flush"

RetryShortWrite(b, res) == IF res # Len(b) THEN "write" ELSE "flush"

SkipFlushOnError(b, res) == IF res = Err THEN "unlock" ELSE "flush"

\* the statement after `let _ = kmsg.write(&buf);` is the flush, whatever
\* the write returned: there is no loop and no early return
AfterWrite(b, res) == "flush"

SelfCeilingLowered(s) == [s EXCEPT !.maxlevel = Off]

\* enabled, log and flush take &self, and maxlevel is a plain field: the
\* sink after the call is the sink before it
SelfAfterCall(s) == s

QuestionMarkIgnored(res) == "continue"

\* the `?` after set_boxed_logger: an Err returns it from init_with_level
QuestionMark(res) == IF res = "Err" THEN "return" ELSE "continue"

NoReturn == [fn |-> "none", res |-> "none", late |-> FALSE]
NoEnabled == [level |-> Off, res |-> FALSE]

----------------------------------------------------------------------------
(* Initial states *)

InitThreads ==
    /\ kmsg_owner = None
    /\ kmsg_poisoned = FALSE
    /\ pc = [t \in Threads |-> "idle"]
    /\ call = [t \in Threads |-> "none"]
    /\ eret = [t \in Threads |-> NoEnabled]
    /\ rec = [t \in Threads |-> NoRecord]
    /\ lvl = [t \in Threads |-> 0]
    /\ buf = [t \in Threads |-> << >>]
    /\ ilevel = [t \in Threads |-> Off]
    /\ logger = [t \in Threads |-> NopLogger]
    /\ iret = [t \in Threads |-> NoReturn]
    /\ ops = << >>
    /\ stream = << >>
    /\ last_flush = 0
    /\ nlogs = [l \in Level |-> 0]
    /\ ncalls = 0

\* a sink built by KernelLog::new() or KernelLog::with_level(filter)
Init ==
    /\ sink \in {new} \cup { with_level(f) : f \in LevelFilter }
    /\ MAX_LEVEL = Off
    /\ InitThreads

\* process start: no logger installed, the global maximum level is Off
InitReg ==
    /\ sink = NopLogger
    /\ MAX_LEVEL = Off
    /\ InitThreads

----------------------------------------------------------------------------
(* <KernelLog as Log>::enabled, ::log and ::flush *)

\* the writes and flushes the call a thread is in has yet to make
Pending(t) ==
    CASE call[t] = "log" /\ pc[t] \in {"lock", "write"} -> 2
      [] call[t] = "log" /\ pc[t] = "flush" -> 1
      [] call[t] = "flush" /\ pc[t] \in {"lock", "flush"} -> 1
      [] OTHER -> 0

\* the handle has room for n more operations within the bound MaxOps
OpsBudget(n) ==
    Len(ops) + 2 * Cardinality({ t \in Threads : Pending(t) = 2 })
             + Cardinality({ t \in Threads : Pending(t) = 1 }) + n <= MaxOps

\* a call sink.enabled(&metadata)
Enabled(t, level) ==
    /\ eret' = [eret EXCEPT ![t] = [level |-> level, res |-> enabled(sink, level)]]
    /\ sink' = SelfAfterCall(sink)
    /\ UNCHANGED << MAX_LEVEL, pc, call, nlogs, ncalls >>
    /\ UNCHANGED << lockvars, logvars, initvars, devvars >>

\* the method returns (): its locals are gone
Return(t) ==
    /\ pc' = [pc EXCEPT ![t] = "idle"]
    /\ call' = [call EXCEPT ![t] = "none"]
    /\ rec' = [rec EXCEPT ![t] = NoRecord]
    /\ lvl' = [lvl EXCEPT ![t] = 0]
    /\ buf' = [buf EXCEPT ![t] = << >>]

\* log, lines 80-93: the enabled check, the priority and the formatting
LogBody(t, r) ==
    /\ nlogs' = [nlogs EXCEPT ![r.level] = @ + 1]
    /\ IF ~enabled(sink, r.level)
       THEN Return(t)
       ELSE /\ rec' = [rec EXCEPT ![t] = r]
            /\ lvl' = [lvl EXCEPT ![t] = priority(r.level)]
            /\ buf' = [buf EXCEPT ![t] = format(r)]
            /\ pc' = [pc EXCEPT ![t] = "lock"]
            /\ call' = [call EXCEPT ![t] = "log"]

\* a direct call sink.log(&record)
Log(t, r) ==
    /\ pc[t] = "idle"
    /\ ncalls < MaxCalls
    /\ enabled(sink, r.level) => OpsBudget(2)
    /\ ncalls' = ncalls + 1
    /\ LogBody(t, r)
    /\ sink' = SelfAfterCall(sink)
    /\ UNCHANGED << MAX_LEVEL, eret >>
    /\ UNCHANGED << lockvars, initvars, devvars >>

\* a direct call sink.flush()
FlushCall(t) ==
    /\ pc[t] = "idle"
    /\ ncalls < MaxCalls
    /\ OpsBudget(1)
    /\ ncalls' = ncalls + 1
    /\ pc' = [pc EXCEPT ![t] = "lock"]
    /\ call' = [call EXCEPT ![t] = "flush"]
    /\ sink' = SelfAfterCall(sink)
    /\ UNCHANGED << MAX_LEVEL, eret, nlogs >>
    /\ UNCHANGED << lockvars, logvars, initvars, devvars >>

\* self.kmsg.lock(): Ok(guard), or Err when the mutex is poisoned, and then
\* the body of the `if let` is skipped
Lock(t) ==
    /\ pc[t] = "lock"
    /\ LockFree
    /\ IF kmsg_poisoned
       THEN /\ Return(t)
            /\ UNCHANGED kmsg_owner
       ELSE /\ kmsg_owner' = t
            /\ pc' = [pc EXCEPT ![t] = AfterLock(call[t])]
            /\ UNCHANGED << call, logvars >>
    /\ UNCHANGED << sink, kmsg_poisoned, MAX_LEVEL, eret, nlogs, ncalls >>
    /\ UNCHANGED << initvars, devvars >>

\* a panic while the guard is held: unwinding drops the guard and poisons
\* the mutex
PanicHoldingGuard(t) ==
    /\ pc' = [pc EXCEPT ![t] = "panicked"]
    /\ kmsg_owner' = None
    /\ kmsg_poisoned' = TRUE

\* let _ = kmsg.write(&buf);
Write(t) ==
    /\ pc[t] = "write"
    /\ \E res \in WriteResults(buf[t]) :
         /\ ops' = Append(ops, WriteOp(t, rec[t], buf[t], res))
         /\ stream' = stream \o Accepted(buf[t], res)
         /\ IF discard(res) = "continue"
            THEN /\ pc' = [pc EXCEPT ![t] = AfterWrite(buf[t], res)]
                 /\ kmsg_owner' = GuardAfterWrite(t)
                 /\ UNCHANGED kmsg_poisoned
            ELSE PanicHoldingGuard(t)
    /\ UNCHANGED << sink, MAX_LEVEL, call, eret, last_flush, nlogs, ncalls >>
    /\ UNCHANGED << logvars, initvars >>

\* let _ = kmsg.flush();
Flush(t) ==
    /\ pc[t] = "flush"
    /\ \E res \in FlushResults :
         /\ ops' = Append(ops, FlushOp(t))
         /\ last_flush' = res
         /\ IF discard(res) = "continue"
            THEN /\ pc' = [pc EXCEPT ![t] = "unlock"]
                 /\ UNCHANGED lockvars
            ELSE PanicHoldingGuard(t)
    /\ UNCHANGED << sink, MAX_LEVEL, call, eret, stream, nlogs, ncalls >>
    /\ UNCHANGED << logvars, initvars >>

\* the guard goes out of scope and the method returns ()
Unlock(t) ==
    /\ pc[t] = "unlock"
    /\ kmsg_owner' = GuardAfterScope(t)
    /\ Return(t)
    /\ UNCHANGED << sink, kmsg_poisoned, MAX_LEVEL, eret, nlogs, ncalls >>
    /\ UNCHANGED << initvars, devvars >>

----------------------------------------------------------------------------
(* init, init_with_level and the `log` crate's global logger *)

AlwaysUninitialized == TRUE

\* log::set_boxed_logger succeeds only while no logger has been set
Uninitialized == ~sink.open

InfoLevel == Info

\* the argument init passes to init_with_level
InitLevel == Trace

Registered == sink.open /\ \A t \in Threads : pc[t] # "init_max"

\* entry of init_with_level(level)
Enter(t, fn, level) ==
    /\ pc[t] = "idle"
    /\ ncalls < MaxCalls
    /\ ncalls' = ncalls + 1
    /\ pc' = [pc EXCEPT ![t] = "init_new"]
    /\ call' = [call EXCEPT ![t] = fn]
    /\ ilevel' = [ilevel EXCEPT ![t] = level]
    /\ iret' = [iret EXCEPT ![t] = [fn |-> fn, res |-> "none", late |-> Registered]]
    /\ logger' = [logger EXCEPT ![t] = NopLogger]
    /\ UNCHANGED << sink, MAX_LEVEL, eret, nlogs >>
    /\ UNCHANGED << lockvars, logvars, devvars >>

init_with_level(t, level) == Enter(t, "init_with_level", level)

init(t) == Enter(t, "init", InitLevel)

\* let logger = KernelLog::with_level(level.to_level_filter());
\* the open of /dev/kmsg succeeds, or fails and the unwrap panics
Construct(t) ==
    /\ pc[t] = "init_new"
    /\ \E opened \in BOOLEAN :
         IF OpenUnwrap(opened) = "continue"
         THEN /\ logger' = [logger EXCEPT ![t] =
                     [with_level(to_level_filter(ilevel[t])) EXCEPT !.open = opened]]
              /\ pc' = [pc EXCEPT ![t] = "init_set"]
         ELSE /\ pc' = [pc EXCEPT ![t] = "panicked"]
              /\ UNCHANGED logger
    /\ UNCHANGED << sink, MAX_LEVEL, call, eret, ilevel, iret, nlogs, ncalls >>
    /\ UNCHANGED << lockvars, logvars, devvars >>

\* a call of a constructor: it returns the KernelLog built by `built`, or
\* the open of /dev/kmsg fails and the unwrap panics
Constructor(t, fn, filter, built) ==
    /\ pc[t] = "idle"
    /\ ncalls < MaxCalls
    /\ ncalls' = ncalls + 1
    /\ ilevel' = [ilevel EXCEPT ![t] = filter]
    /\ \E opened \in BOOLEAN :
         IF OpenUnwrap(opened) = "continue"
         THEN /\ logger' = [logger EXCEPT ![t] = [built EXCEPT !.open = opened]]
              /\ iret' = [iret EXCEPT ![t] = [fn |-> fn, res |-> "value", late |-> FALSE]]
              /\ UNCHANGED pc
         ELSE /\ logger' = [logger EXCEPT ![t] = NopLogger]
              /\ iret' = [iret EXCEPT ![t] = [fn |-> fn, res |-> "none", late |-> FALSE]]
              /\ pc' = [pc EXCEPT ![t] = "panicked"]
    /\ UNCHANGED << sink, MAX_LEVEL, call, eret, nlogs >>
    /\ UNCHANGED << lockvars, logvars, devvars >>

\* a call KernelLog::new()
New(t) == Constructor(t, "new", ilevel[t], new)

\* a call KernelLog::with_level(filter)
WithLevel(t, filter) == Constructor(t, "with_level", filter, with_level(filter))

\* init_with_level returns: its locals are gone
ReturnInit(t, res) ==
    /\ pc' = [pc EXCEPT ![t] = "idle"]
    /\ iret' = [iret EXCEPT ![t].res = res]
    /\ call' = [call EXCEPT ![t] = "none"]
    /\ logger' = [logger EXCEPT ![t] = NopLogger]

\* log::set_boxed_logger(Box::new(logger))?;
SetBoxedLogger(t) ==
    /\ pc[t] = "init_set"
    /\ IF Uninitialized
       THEN /\ sink' = logger[t]
            /\ pc' = [pc EXCEPT ![t] = "init_max"]
            /\ UNCHANGED << call, logger, iret >>
       ELSE /\ IF QuestionMark("Err") = "return"
               THEN ReturnInit(t, "Err")
               ELSE /\ pc' = [pc EXCEPT ![t] = "init_max"]
                    /\ UNCHANGED << call, logger, iret >>
            /\ UNCHANGED sink
    /\ UNCHANGED << MAX_LEVEL, eret, ilevel, nlogs, ncalls >>
    /\ UNCHANGED << lockvars, logvars, devvars >>

\* log::set_max_level(level.to_level_filter()); Ok(())
SetMaxLevel(t) ==
    /\ pc[t] = "init_max"
    /\ MAX_LEVEL' = to_level_filter(ilevel[t])
    /\ ReturnInit(t, "Ok")
    /\ UNCHANGED << sink, eret, ilevel, nlogs, ncalls >>
    /\ UNCHANGED << lockvars, logvars, devvars >>

\* the macros error!, warn!, info!, debug!, trace!:
\* if lvl <= log::max_level() { log::logger().log(&record) }
\* where log::logger() is the installed logger, or a no-op logger
LogMacro(t, r) ==
    /\ pc[t] = "idle"
    /\ ncalls < MaxCalls
    /\ (r.level <= MAX_LEVEL /\ sink.open /\ enabled(sink, r.level)) => OpsBudget(2)
    /\ ncalls' = ncalls + 1
    /\ IF r.level <= MAX_LEVEL /\ sink.open
       THEN LogBody(t, r) /\ sink' = SelfAfterCall(sink)
       ELSE UNCHANGED << sink, pc, call, logvars, nlogs >>
    /\ UNCHANGED << MAX_LEVEL, eret >>
    /\ UNCHANGED << lockvars, initvars, devvars >>

----------------------------------------------------------------------------
(* Specifications *)

Next ==
    \E t \in Threads :
        \/ \E r \in Records : Log(t, r)
        \/ FlushCall(t)
        \/ Lock(t)
        \/ Write(t)
        \/ Flush(t)
        \/ Unlock(t)

Spec == Init /\ [][Next]_vars

NextReg ==
    \E t \in Threads :
        \/ init(t)
        \/ \E level \in Level : init_with_level(t, level)
        \/ Construct(t)
        \/ SetBoxedLogger(t)
        \/ SetMaxLevel(t)
        \/ \E r \in Records : LogMacro(t, r)
        \/ New(t)
        \/ \E filter \in LevelFilter : WithLevel(t, filter)
        \/ Lock(t)
        \/ Write(t)
        \/ Flush(t)
        \/ Unlock(t)

SpecReg == InitReg /\ [][NextReg]_vars

NextEnabled == \E t \in Threads : \E level \in Level : Enabled(t, level)

SpecEnabled == Init /\ [][NextEnabled]_vars

\* the scheduler lets a thread that can take a step take it, and the mutex
\* lets a thread that waits for the lock have it at some time when it is free
Fairness ==
    \A t \in Threads :
        /\ SF_vars(Lock(t))
        /\ WF_vars(Write(t) \/ Flush(t) \/ Unlock(t))

\* the records and the level the threads of SpecSink use
SinkRecords == { r \in Records : r.level \in {Warn, Debug} }

NextSink ==
    \E t \in Threads :
        \/ Enabled(t, Info)
        \/ \E r \in SinkRecords : Log(t, r)
        \/ FlushCall(t)
        \/ Lock(t)
        \/ Write(t)
        \/ Flush(t)
        \/ Unlock(t)

\* one sink on which the threads call enabled, log and flush
SpecSink == Init /\ [][NextSink]_vars

\* a sink built by KernelLog::new()
InitNew ==
    /\ sink = new
    /\ MAX_LEVEL = Off
    /\ InitThreads

NextFair ==
    \E t \in Threads :
        \/ \E r \in SinkRecords : Log(t, r)
        \/ FlushCall(t)
        \/ Lock(t)
        \/ Write(t)
        \/ Flush(t)
        \/ Unlock(t)

\* threads call log and flush on one sink under fair scheduling, with
\* device operations that return
SpecFair == InitNew /\ [][NextFair]_vars /\ Fairness

----------------------------------------------------------------------------
(* Properties *)

WriteIdx == { i \in 1..Len(ops) : ops[i].op = "write" }

\* the severities at least as severe as a ceiling, most severe first
Severity == << Error, Warn, Info, Debug, Trace >>

AtLeastAsSevere(c) ==
    IF c = Off THEN {}
    ELSE { Severity[i] : i \in { j \in 1..5 : \A k \in 1..5 : Severity[k] = c => j <= k } }

\* a thread is inside the `if let Ok(mut kmsg)` block: it holds the guard
InHandle(t) == pc[t] \in {"write", "flush", "unlock"}

\* C2: at most one thread at a time is inside a write or a flush of the
\* handle, and that thread is the one that owns the lock of the sink.
C2_MutualExclusion ==
    /\ \A t, u \in Threads : InHandle(t) /\ InHandle(u) => t = u
    /\ \A t \in Threads : InHandle(t) => kmsg_owner = t
    /\ kmsg_owner # None => InHandle(kmsg_owner)

\* one thread is about to write while another waits for the lock
C2_Witness ==
    \E t, u \in Threads : t # u /\ pc[t] = "write" /\ pc[u] = "lock"

\* C3: in the sequence of handle operations every write is followed at once
\* by the flush of the same thread (the flush of the same log call), or is
\* the last operation while that thread is about to flush.
C3_WriteFlushAdjacent ==
    \A i \in WriteIdx :
        IF i < Len(ops)
        THEN ops[i + 1].op = "flush" /\ ops[i + 1].thread = ops[i].thread
        ELSE pc[ops[i].thread] = "flush" /\ call[ops[i].thread] = "log"

\* a write and its flush went through while another thread was waiting for
\* the lock to log or to flush
C3_Witness ==
    /\ Len(ops) = 2
    /\ ops[1].op = "write"
    /\ ops[2].op = "flush"
    /\ \E u \in Threads : u # ops[1].thread /\ pc[u] = "lock"

\* C4: enabled(s) returns true exactly for the severities at least as severe
\* as the ceiling of the sink; for the ceiling Info these are Error, Warn
\* and Info, and Debug and Trace are refused.
C4_EnabledIffAtLeastAsSevere ==
    \A t \in Threads :
        eret[t] # NoEnabled =>
            /\ eret[t].res <=> (eret[t].level \in AtLeastAsSevere(sink.maxlevel))
            /\ sink.maxlevel = Info =>
                   (eret[t].res <=> eret[t].level \in {Error, Warn, Info})

\* under the ceiling Info one thread was refused Debug and another was
\* granted Info
C4_Witness ==
    /\ sink.maxlevel = Info
    /\ \E t, u \in Threads :
         /\ eret[t] = [level |-> Debug, res |-> FALSE]
         /\ eret[u] = [level |-> Info, res |-> TRUE]

\* number of calls of log so far with a severity the ceiling enables
EnabledLogCalls ==
    LET RECURSIVE Sum(_)
        Sum(S) == IF S = {} THEN 0
                  ELSE LET l == CHOOSE x \in S : TRUE
                       IN nlogs[l] + Sum(S \ {l})
    IN Sum(AtLeastAsSevere(sink.maxlevel))

\* a step that is a call of log with a severity the ceiling does not enable
DisabledLogStep ==
    \E l \in Level \ AtLeastAsSevere(sink.maxlevel) : nlogs'[l] = nlogs[l] + 1

\* C5: a call of log with a severity that is not enabled performs no write
\* and no flush, does not touch the lock, and has returned when the step
\* ends; the handle never sees more writes than there were calls of log with
\* an enabled severity, and never a write of a record that is not enabled.
C5_DisabledEmitWritesNothing ==
    /\ [](/\ Cardinality(WriteIdx) <= EnabledLogCalls
          /\ \A i \in WriteIdx : ops[i].rec.level \in AtLeastAsSevere(sink.maxlevel))
    /\ [][DisabledLogStep =>
            /\ UNCHANGED << ops, stream, last_flush, kmsg_owner, kmsg_poisoned >>
            /\ pc' = pc]_vars

\* a disabled call has been made and returned, and an enabled one has written
C5_Witness ==
    /\ \E l \in Level \ AtLeastAsSevere(sink.maxlevel) : nlogs[l] = 1
    /\ Cardinality(WriteIdx) = 1
    /\ EnabledLogCalls = 1
    /\ \A t \in Threads : pc[t] = "idle"

\* C6: the priority computed by log is 3 for Error, 4 for Warn, 5 for Info,
\* 6 for Debug and 7 for Trace, whatever the ceiling of the sink; it is
\* never outside 3..7.
C6_PriorityMapping ==
    \A t \in Threads :
        call[t] = "log" =>
            /\ lvl[t] \in 3..7
            /\ rec[t].level = Error => lvl[t] = 3
            /\ rec[t].level = Warn  => lvl[t] = 4
            /\ rec[t].level = Info  => lvl[t] = 5
            /\ rec[t].level = Debug => lvl[t] = 6
            /\ rec[t].level = Trace => lvl[t] = 7

\* under the most permissive ceiling two threads are logging a Trace and an
\* Error record
C6_Witness ==
    /\ sink.maxlevel = Trace
    /\ \E t, u \in Threads :
         /\ call[t] = "log" /\ rec[t].level = Trace /\ lvl[t] = 7
         /\ call[u] = "log" /\ rec[u].level = Error /\ lvl[u] = 3

\* the digit of the kernel priority of each severity
PriorityDigit(level) ==
    CASE level = Error -> "3"
      [] level = Warn  -> "4"
      [] level = Info  -> "5"
      [] level = Debug -> "6"
      [] level = Trace -> "7"

\* the wire format `<P>T: M\n` of a record
WireFormat(r) ==
    << "<", PriorityDigit(r.level), ">" >> \o r.target \o << ":", " " >>
        \o r.args \o << NL >>

\* the positions of the newlines of the stream, and the line each one ends
NLPos == { i \in 1..Len(stream) : stream[i] = NL }
LineStart(i) ==
    IF \E j \in NLPos : j < i
    THEN 1 + CHOOSE j \in NLPos : j < i /\ \A k \in NLPos : k < i => k <= j
    ELSE 1
LineAt(i) == SubSeq(stream, LineStart(i), i)

\* the callers logged distinct messages of one line each
DistinctSingleLine ==
    /\ \A i \in WriteIdx : \A k \in 1..Len(ops[i].rec.args) : ops[i].rec.args[k] # NL
    /\ \A i \in WriteIdx : \A k \in 1..Len(ops[i].rec.target) : ops[i].rec.target[k] # NL
    /\ \A i, j \in WriteIdx : i # j => ops[i].rec.args # ops[j].rec.args

\* the stream is made of complete records: it is empty or ends with a
\* newline, and every line of it is the record of exactly one caller
CompleteRecords ==
    /\ stream # << >> => stream[Len(stream)] = NL
    /\ \A i \in NLPos :
         Cardinality({ k \in WriteIdx : WireFormat(ops[k].rec) = LineAt(i) }) = 1

\* every write was accepted whole or refused
WholeOrNothing == \A i \in WriteIdx : ops[i].res \in {Err, Len(ops[i].buf)}

\* the first n bytes of the records of the first n writes, in order
RECURSIVE Delivered(_)
Delivered(n) ==
    IF n = 0 THEN << >>
    ELSE Delivered(n - 1) \o
         (IF ops[n].op = "write" /\ ops[n].res # Err
          THEN SubSeq(WireFormat(ops[n].rec), 1, ops[n].res)
          ELSE << >>)

\* C1 as stated: with distinct single-line messages the stream received by
\* the device consists of complete records only.
C1_Original == DistinctSingleLine => CompleteRecords

\* C1 as amended: the stream is the concatenation, in the order of the
\* writes, of one piece for each write, the piece being the first bytes of
\* that caller's record as many as the device accepted; when every write is
\* accepted whole or refused and the messages are distinct and of one line,
\* the stream consists of complete records only.
C1_StreamOfRecordPrefixes ==
    /\ stream = Delivered(Len(ops))
    /\ (WholeOrNothing /\ DistinctSingleLine) => CompleteRecords

\* two threads have logged distinct one-line messages and both writes were
\* accepted whole
C1_Witness ==
    /\ DistinctSingleLine
    /\ WholeOrNothing
    /\ \E i, j \in WriteIdx :
         /\ ops[i].thread # ops[j].thread
         /\ ops[i].res = Len(ops[i].buf)
         /\ ops[j].res = Len(ops[j].buf)

\* C7: the bytes log hands to the write are `<`, the priority in decimal,
\* `>`, the target, `: `, the message and one newline, nothing else.
C7_ExactBytes ==
    \A i \in WriteIdx :
        /\ ops[i].buf = WireFormat(ops[i].rec)
        /\ ops[i].rec = Record(Warn, myapp, disk_nearly_full) =>
              ops[i].buf = << "<", "4", ">", "m", "y", "a", "p", "p", ":", " ",
                              "d", "i", "s", "k", " ", "n", "e", "a", "r", "l",
                              "y", " ", "f", "u", "l", "l", NL >>
        /\ ops[i].rec = Record(Debug, << >>, << "x", NL, "y" >>) =>
              ops[i].buf = << "<", "6", ">", ":", " ", "x", NL, "y", NL >>

\* the record of the example and the record of two lines have been written
C7_Witness ==
    \E i, j \in WriteIdx :
        /\ ops[i].rec = Record(Warn, myapp, disk_nearly_full)
        /\ ops[j].rec = Record(Debug, << >>, << "x", NL, "y" >>)

\* C8: no failure of a write or of a flush ends a thread or poisons the
\* lock: a thread that logs or flushes goes on to return, and the sink can
\* be used again.
C8_FailuresSwallowed ==
    /\ \A t \in Threads : pc[t] # "panicked"
    /\ ~kmsg_poisoned
    /\ \A i \in WriteIdx :
         /\ i = Len(ops) => pc[ops[i].thread] = "flush"
         /\ i < Len(ops) => ops[i + 1].thread = ops[i].thread

\* a write failed, its caller returned, the sink took a later write whole,
\* the flush after it failed, and that caller returned too
C8_Witness ==
    /\ Len(ops) = 4
    /\ ops[1].op = "write" /\ ops[1].res = Err
    /\ ops[3].op = "write" /\ ops[3].res = Len(ops[3].buf)
    /\ last_flush = Err
    /\ \A t \in Threads : pc[t] = "idle"
    /\ kmsg_owner = None

\* the positions of a thread inside init_with_level
InInit(t) == pc[t] \in {"init_new", "init_set", "init_max"}

\* thread t ends, in this step, a call of init or init_with_level that it
\* began after a registration had succeeded
LaterCallEnds(t) == iret[t].late /\ InInit(t) /\ ~InInit(t)'

\* C9 as stated: once a call of init or init_with_level has returned Ok,
\* the installed logger and the global maximum level never change, and every
\* later call returns the conflict failure.
C9_Original ==
    [][Registered =>
        /\ sink' = sink
        /\ MAX_LEVEL' = MAX_LEVEL
        /\ \A t \in Threads :
             LaterCallEnds(t) => pc'[t] = "idle" /\ iret'[t].res = "Err"]_vars

\* C9 as amended: once a call of init or init_with_level has returned Ok,
\* the installed logger and the global maximum level never change and equal
\* each other; every later call that opens the device returns the conflict
\* failure, and one that cannot open it panics in the constructor; none
\* returns Ok.
C9_RegistrationOnce ==
    /\ [](Registered => sink.maxlevel = MAX_LEVEL)
    /\ [][Registered =>
            /\ sink' = sink
            /\ MAX_LEVEL' = MAX_LEVEL
            /\ \A t \in Threads :
                 LaterCallEnds(t) =>
                     \/ pc[t] = "init_set" /\ pc'[t] = "idle" /\ iret'[t].res = "Err"
                     \/ pc[t] = "init_new" /\ pc'[t] = "panicked"]_vars

\* a registration succeeded and a later call with another level returned
\* the conflict failure
C9_Witness ==
    /\ Registered
    /\ \E t \in Threads :
         /\ iret[t].late
         /\ iret[t].res = "Err"
         /\ pc[t] = "idle"
         /\ ilevel[t] # sink.maxlevel
         /\ ilevel[t] # MAX_LEVEL

\* init has returned Ok to some thread
InitOk == \E t \in Threads : iret[t].fn = "init" /\ iret[t].res = "Ok"

\* a step that is a use of a logging macro
MacroStep ==
    /\ ncalls' = ncalls + 1
    /\ nlogs' # nlogs
    /\ \A t \in Threads : pc'[t] = "init_new" => pc[t] = "init_new"

\* C10: when init or init_with_level has returned Ok to a thread, the
\* ceiling of the installed sink and the global maximum level both equal the
\* level of that call, which is Trace for init; after init every severity
\* passes both checks and a record logged through a macro goes on to the
\* lock and the write.
C10_InitSetsCeilings ==
    /\ [](\A t \in Threads :
            iret[t].res = "Ok" =>
                /\ sink.open
                /\ sink.maxlevel = ilevel[t]
                /\ MAX_LEVEL = ilevel[t]
                /\ iret[t].fn = "init" =>
                       /\ sink.maxlevel = Trace
                       /\ MAX_LEVEL = Trace
                       /\ \A l \in Level : l <= MAX_LEVEL /\ enabled(sink, l))
    /\ [][InitOk /\ MacroStep =>
            \E t \in Threads :
                /\ pc[t] = "idle"
                /\ pc'[t] = "lock"
                /\ buf'[t] = WireFormat(rec'[t])]_vars

\* init returned Ok and a Debug record logged through a macro was written
C10_Witness ==
    /\ InitOk
    /\ \E i \in WriteIdx : ops[i].rec.level = Debug /\ ops[i].res = Len(ops[i].buf)

\* C11: when the open of the device fails, the construction fails with a
\* panic that unwinds into the caller: the thread never holds a sink value,
\* degraded or not, it never goes on to install a logger, and the step
\* leaves the installed logger and the global maximum level as they were.
\* Every sink value that exists holds an opened device.
C11_OpenFailureIsFatal ==
    /\ [](\A t \in Threads :
            /\ pc[t] \in {"init_set", "init_max"} => logger[t].open
            /\ iret[t].res = "value" => logger[t].open
            /\ pc[t] = "panicked" => logger[t] = NopLogger /\ iret[t].res = "none")
    /\ [](sink # NopLogger => sink.open)
    /\ [][\A t \in Threads :
            /\ pc[t] # "panicked" /\ pc'[t] = "panicked" =>
                   sink' = sink /\ MAX_LEVEL' = MAX_LEVEL
            /\ pc[t] = "panicked" => pc'[t] = "panicked"]_vars

\* the open failed in a call of init or init_with_level and in a call of a
\* constructor: both threads panicked, no logger is installed and the global
\* maximum level is the initial one
C11_Witness ==
    /\ sink = NopLogger
    /\ MAX_LEVEL = Off
    /\ \E t, u \in Threads :
         /\ pc[t] = "panicked" /\ iret[t].fn \in {"init", "init_with_level"}
         /\ pc[u] = "panicked" /\ iret[u].fn \in {"new", "with_level"}

\* C14: the sink that new returns has the ceiling Info and enables exactly
\* Error, Warn and Info; the sink that with_level(c) returns has the ceiling
\* c, for every filter c.
C14_ConstructorCeiling ==
    \A t \in Threads :
        iret[t].res = "value" =>
            /\ iret[t].fn = "new" =>
                   /\ logger[t].maxlevel = Info
                   /\ {l \in Level : enabled(logger[t], l)} = {Error, Warn, Info}
            /\ iret[t].fn = "with_level" => logger[t].maxlevel = ilevel[t]

\* one thread holds the sink new returned and another the sink
\* with_level(Debug) returned
C14_Witness ==
    \E t, u \in Threads :
        /\ iret[t].fn = "new" /\ iret[t].res = "value"
        /\ iret[u].fn = "with_level" /\ iret[u].res = "value"
        /\ ilevel[u] = Debug
        /\ logger[u].maxlevel = Debug

\* C13: no step of a call of enabled, log or flush changes the ceiling of the
\* sink: it is at every moment the ceiling the constructor gave it.
C13_CeilingNeverChanges == [][sink'.maxlevel = sink.maxlevel]_vars

\* on a sink with the ceiling Warn, enabled has returned, a log call has
\* written its record and a flush call has flushed
C13_Witness ==
    /\ sink.maxlevel = Warn
    /\ \E t \in Threads : eret[t] # NoEnabled
    /\ nlogs[Warn] = 1
    /\ ncalls = 2
    /\ Len(ops) = 3
    /\ \A t \in Threads : pc[t] = "idle"

\* C15: a call of log with an enabled severity has formatted its record
\* before it asks for the lock, owns the lock from the write to the release,
\* and moves lock, write, flush, release, return in that order; its write
\* step hands the whole formatted record to the handle once and goes on to
\* the flush whatever the write returned, its flush step flushes once; when
\* no call is in progress the handle has seen one write per enabled call.
C15_EmitStepsInOrder ==
    /\ [](\A t \in Threads :
            call[t] = "log" =>
                /\ buf[t] = WireFormat(rec[t])
                /\ pc[t] = "lock" => kmsg_owner # t
                /\ pc[t] \in {"write", "flush", "unlock"} => kmsg_owner = t)
    /\ []((\A t \in Threads : pc[t] = "idle") =>
             Cardinality(WriteIdx) = EnabledLogCalls)
    /\ [][\A t \in Threads :
            call[t] = "log" =>
                /\ pc[t] = "lock" => pc'[t] \in {"lock", "write"}
                /\ pc[t] = "write" =>
                       \/ pc'[t] = "write" /\ ops' = ops
                       \/ /\ pc'[t] = "flush"
                          /\ \E res \in WriteResults(buf[t]) :
                               ops' = Append(ops, WriteOp(t, rec[t], WireFormat(rec[t]), res))
                /\ pc[t] = "flush" =>
                       \/ pc'[t] = "flush" /\ ops' = ops
                       \/ pc'[t] = "unlock" /\ ops' = Append(ops, FlushOp(t))
                /\ pc[t] = "unlock" =>
                       \/ pc'[t] = "unlock" /\ kmsg_owner' = t
                       \/ pc'[t] = "idle" /\ ops' = ops /\ kmsg_owner' # t]_vars

\* one enabled call of log was made: its write was short, its flush followed
\* and the call returned with nothing more written
C15_Witness ==
    /\ ncalls = 1
    /\ EnabledLogCalls = 1
    /\ Len(ops) = 2
    /\ ops[1].op = "write"
    /\ ops[1].res > 0 /\ ops[1].res < Len(ops[1].buf)
    /\ ops[2].op = "flush"
    /\ \A t \in Threads : pc[t] = "idle"

\* C16: a thread that leaves the `if let` block of log or flush has released
\* the lock, whatever the write and the flush returned, and the lock is free
\* whenever no call is in progress; under fair scheduling every call of log
\* or flush that has begun returns.
C16_LockReleasedAndCallsReturn ==
    /\ []((\A t \in Threads : pc[t] = "idle") => kmsg_owner = None)
    /\ [][\A t \in Threads : InHandle(t) /\ ~InHandle(t)' =>
            pc'[t] = "idle" /\ kmsg_owner' = None]_vars
    /\ \A t \in Threads : [](pc[t] # "idle" => <>(pc[t] = "idle"))

\* two calls went through the lock one after the other: the write of the
\* first failed, the flush of the second failed, both returned and the lock
\* is free
C16_Witness ==
    /\ Len(ops) >= 3
    /\ ops[1].op = "write" /\ ops[1].res = Err
    /\ ops[Len(ops)].thread # ops[1].thread
    /\ last_flush = Err
    /\ \A t \in Threads : pc[t] = "idle"
    /\ kmsg_owner = None

\* the flush operations in the history of the handle
FlushIdx == { i \in 1..Len(ops) : ops[i].op = "flush" }

\* the calls of flush made so far
FlushCalls ==
    LET RECURSIVE Sum(_)
        Sum(S) == IF S = {} THEN 0
                  ELSE LET l == CHOOSE x \in S : TRUE
                       IN nlogs[l] + Sum(S \ {l})
    IN ncalls - Sum(Level)

\* C17: a call of flush never writes: it takes the lock, flushes the handle
\* once and releases the lock, and it returns whether the flush succeeded or
\* failed; none of its steps adds a byte to the stream, and when no call is
\* in progress the handle has seen one flush for each write and one more for
\* each call of flush.
C17_FlushOnlyFlushes ==
    /\ [](\A t \in Threads :
            call[t] = "flush" =>
                /\ pc[t] \in {"lock", "flush", "unlock"}
                /\ pc[t] \in {"flush", "unlock"} => kmsg_owner = t)
    /\ []((\A t \in Threads : pc[t] = "idle") =>
             Cardinality(FlushIdx) = Cardinality(WriteIdx) + FlushCalls)
    /\ [][\A t \in Threads :
            call[t] = "flush" /\ pc'[t] # pc[t] =>
                /\ stream' = stream
                /\ pc[t] = "lock" => pc'[t] = "flush" /\ ops' = ops
                /\ pc[t] = "flush" =>
                       pc'[t] = "unlock" /\ ops' = Append(ops, FlushOp(t))
                /\ pc[t] = "unlock" =>
                       pc'[t] = "idle" /\ ops' = ops /\ kmsg_owner' = None]_vars

\* a call of flush whose flush failed has returned after a write had put
\* bytes into the stream: the stream is what the write left
C17_Witness ==
    /\ FlushCalls = 1
    /\ Len(ops) = 3
    /\ ops[1].op = "write"
    /\ stream = ops[1].buf
    /\ ops[3].thread # ops[1].thread
    /\ last_flush = Err
    /\ kmsg_owner = None
    /\ \A t \in Threads : pc[t] = "idle"

\* C18: however calls of init and init_with_level interleave, the installed
\* logger is set at most once, by a call at set_boxed_logger, and the global
\* maximum level is set only by the call that installed its sink: it is the
\* initial Off or the ceiling of the installed sink in every state, and it
\* is the ceiling of the installed sink once every call has returned.
C18_OnlyInstallerSetsCeiling ==
    /\ [](MAX_LEVEL = Off \/ (sink.open /\ MAX_LEVEL = sink.maxlevel))
    /\ [](/\ \A t \in Threads : pc[t] = "idle"
          /\ \E t \in Threads : iret[t].fn \in {"init", "init_with_level"}
          => sink.open /\ MAX_LEVEL = sink.maxlevel)
    /\ [][/\ sink.open => sink' = sink
          /\ sink' # sink =>
                \E t \in Threads : pc[t] = "init_set" /\ sink' = logger[t]
          /\ MAX_LEVEL' # MAX_LEVEL =>
                \E t \in Threads :
                    /\ pc[t] = "init_max"
                    /\ iret'[t].res = "Ok"
                    /\ sink = with_level(to_level_filter(ilevel[t]))
                    /\ MAX_LEVEL' = sink.maxlevel]_vars

\* two calls with different levels ran side by side: one installed its sink
\* and set the global maximum level, the other returned the conflict failure
C18_Witness ==
    /\ \A t \in Threads : pc[t] = "idle"
    /\ \E t, u \in Threads :
         /\ iret[t].res = "Ok"
         /\ iret[u].res = "Err" /\ ~iret[u].late
         /\ ilevel[u] # ilevel[t]
         /\ sink.maxlevel = ilevel[t]
         /\ MAX_LEVEL = ilevel[t]

\* the writes that failed or were short
FailedWriteIdx == { i \in WriteIdx : ops[i].res # Len(ops[i].buf) }

\* C19: after a write that failed or was short, the thread still holds the
\* lock and is about to flush, or its flush is the next operation the handle
\* saw: the flush is attempted whatever the write returned.
C19_FlushAfterFailedWrite ==
    \A i \in FailedWriteIdx :
        LET t == ops[i].thread
        IN  IF i = Len(ops)
            THEN pc[t] = "flush" /\ call[t] = "log" /\ kmsg_owner = t
            ELSE ops[i + 1] = FlushOp(t)

\* a write failed, a later write was short, and each was followed by the
\* flush of its thread
C19_Witness ==
    /\ Len(ops) = 4
    /\ ops[1].op = "write" /\ ops[1].res = Err
    /\ ops[2] = FlushOp(ops[1].thread)
    /\ ops[3].op = "write" /\ ops[3].res > 0 /\ ops[3].res < Len(ops[3].buf)
    /\ ops[4] = FlushOp(ops[3].thread)

====
